---- MODULE Spec2Model ----
(***************************************************************************)
(* Real-time queue event, notification and timer core of the OHMS mobile   *)
(* client: TimerManager (navigation/TabNavigator.tsx), TimerComponent      *)
(* (screens/EyeDropQueueScreen.tsx) and the socket hooks with their        *)
(* SocketManager (services/socketService, kept as unnamed/part_007).       *)
(***************************************************************************)
EXTENDS Integers, FiniteSets, Sequences, TLC

(* ------------------------------ bounds -------------------------------- *)
\* the clock stops here
MaxTime == 2
\* longest duration handed to a timer start
MaxDuration == 2
\* number of setTimeout handles TimerManager may allocate
MaxHandle == 2
\* number of fetchEyeDropQueue requests in flight at once
MaxInflight == 2
\* number of transports io() may create
MaxSockets == 2
\* alerts counted per (event, queueEntryId) within one coalescing window
MaxAlerts == 2
\* delayed joins waiting for their setTimeout at once
MaxPending == 2

PatientIds == {"p1", "p2"}
Entries == {"q1"}
Durations == 1..MaxDuration

Max(a, b) == IF a >= b THEN a ELSE b

VARIABLES
    now,            \* wall clock, in ticks
    \* ---- TimerManager ----
    timers,         \* Map<patientId, timeout handle>; 0 = no entry
    timeouts,       \* pending setTimeout records of the JS runtime
    nextHandle,     \* next handle setTimeout returns
    completed,      \* per handle: number of onComplete() invocations
    cleared,        \* timeouts cancelled while pending, and by which call
    \* ---- TimerComponent and its data ----
    expiresAt,      \* server side: wall-clock expiry of the wait, -1 = none
    patients,       \* screen state: patient.timing.timeRemaining, 0 = absent
    loading,        \* screen state: a non-refresh fetch is running
    error,          \* screen state: the last fetch failed
    inflight,       \* answers of fetchEyeDropQueue not yet delivered
    timeRemaining,  \* useState value of the mounted TimerComponent
    intervalDue,    \* next run of the component's setInterval, -1 = none
    fired,          \* onTimerExpire() calls since the wait was started
    countdownEnd,   \* instant at which the running countdown was due to end
    shown,          \* value displayed at the last unmount of this wait, -1 = none
    \* ---- SocketManager, the transports and the socket hooks ----
    socket,         \* SocketManager.socket; 0 = null
    isConnected,    \* SocketManager.isConnected
    nsock,          \* number of transports io() has created
    transport,      \* per transport: "none", "connecting", "connected",
                    \* "disconnected" (reconnecting) or "closed"
    listeners,      \* per transport: the listeners registered with on()
    sendBuffer,     \* per transport: packets emitted while not connected
    joins,          \* per transport: join directives sent on this connection
    mountedSock,    \* per hook: the socket its effect captured; 0 = unmounted
    globalIdent,    \* (staffType, staffId) of the mounted global hook
    pendingJoins,   \* delayed joins (setTimeout) that have not run yet
    stale,          \* query keys marked stale by invalidateQueries
    granted,        \* notification permission status is 'granted'
    alerts,         \* alerts scheduled per (event, queueEntryId) in this window
    heldAtDisconnect, \* setTimeout handles below this one existed at the last disconnect()
    attempts,       \* per transport: failed reconnection attempts since it lost its connection
    \* ---- event handlers across their awaits ----
    tasks,          \* handler invocations suspended at an await
    nseq,           \* number of server events delivered so far
    lastEvent,      \* the event delivered last and what its delivery did
    updatePending,  \* onDataUpdate() was called and the screen has not refreshed yet
    \* ---- notification text ----
    payload,        \* the event payload handed to the notification helpers
    rendered,       \* the texts the helpers interpolated for that payload
    \* ---- AppContent push registration ----
    user,           \* useAuth().user: 0 = null, else the version of the object
    userChanges,    \* number of setUser() calls so far
    pushRegistered, \* pushRegistered.current
    pushToken,      \* PushNotificationService.pushToken is set
    setups,         \* setupPush() invocations suspended at an await
    backendToken,   \* backend's record of this device's token: "none", "registered",
                    \* or "kept" after an unregister request that failed
    registerCalls,  \* register-token requests made in this session
    \* ---- WebSocketService ----
    wsListeners,    \* listeners: per event the Set of callbacks, in insertion order
    wsSubs,         \* the subscribe() calls made, and whether their unsubscribe ran
    wsLast          \* the socket event received last and what its dispatch did

tmVars == <<timers, timeouts, nextHandle, completed, cleared>>
tcVars == <<expiresAt, patients, loading, error, inflight, timeRemaining,
           intervalDue, fired, countdownEnd, shown>>
timerVars == <<tmVars, tcVars>>
connVars == <<socket, isConnected, nsock, transport, listeners, sendBuffer, joins>>
hookVars == <<mountedSock, globalIdent, pendingJoins, stale, granted, alerts>>
obsVars == <<heldAtDisconnect>>
retryVars == <<attempts>>
wsVars == <<wsListeners, wsSubs, wsLast>>
pipeVars == <<tasks, nseq, lastEvent, updatePending>>
payloadVars == <<payload, rendered>>
pushVars == <<user, userChanges, pushRegistered, pushToken, setups, backendToken, registerCalls>>
appVars == <<pipeVars, payloadVars, pushVars>>
sockVars == <<connVars, hookVars, obsVars, retryVars, wsVars, appVars>>

(* ---------------------------- TimerManager ---------------------------- *)

\* clearTimeout(timer): the pending record with that handle is dropped
clearTimeout(to, h) == {t \in to : t.h # h}

\* a clearTimer that cancels every timeout when the patient has no entry
clearTimerTimeoutsElseAll(tm, to, p) ==
    IF tm[p] # 0 THEN clearTimeout(to, tm[p]) ELSE {}

\* clearTimer(patientId), the part acting on the runtime's timeouts
clearTimerTimeouts(tm, to, p) ==
    IF tm[p] # 0 THEN clearTimeout(to, tm[p]) ELSE to

\* clearTimer(patientId), the part acting on the map
clearTimer(tm, p) ==
    IF tm[p] # 0 THEN [tm EXCEPT ![p] = 0] ELSE tm

\* handles that a clearTimer(patientId) cancels while they are pending
clearedBy(tm, to, p, by) ==
    {[h |-> t.h, patientId |-> t.patientId, due |-> t.due, by |-> by] :
        t \in {x \in to : tm[p] # 0 /\ x.h = tm[p]}}

\* startTimer without the leading clearTimer
startTimerNoClear(tm, to, p) == to

\* timeouts left pending by the first statement of startTimer
startTimerCleared(tm, to, p) == clearTimerTimeouts(tm, to, p)

startTimer(p, d) ==
    /\ nextHandle <= MaxHandle
    /\ LET kept == startTimerCleared(timers, timeouts, p)
       IN  /\ timeouts' = kept \cup
                 {[h |-> nextHandle, patientId |-> p, due |-> now + Max(d, 0),
                   duration |-> d]}
           /\ cleared' = cleared \cup clearedBy(timers, timeouts, p, "start")
    /\ timers' = [timers EXCEPT ![p] = nextHandle]
    /\ nextHandle' = nextHandle + 1
    /\ UNCHANGED completed

StartTimer == \E p \in PatientIds, d \in Durations :
    /\ startTimer(p, d)
    /\ UNCHANGED <<now, sockVars, tcVars>>

\* durations that are already over when the timer is started
ZeroDurations == {-1, 0}

\* startTimer with a zero or negative durationMinutes: setTimeout takes a
\* delay below zero as zero
StartTimerNow == \E p \in PatientIds, d \in ZeroDurations :
    /\ startTimer(p, d)
    /\ UNCHANGED <<now, sockVars, tcVars>>

ClearTimer == \E p \in PatientIds :
    /\ timeouts' = clearTimerTimeouts(timers, timeouts, p)
    /\ cleared' = cleared \cup clearedBy(timers, timeouts, p, "clear")
    /\ timers' = clearTimer(timers, p)
    /\ UNCHANGED <<now, sockVars, nextHandle, completed, tcVars>>

ClearAllTimers ==
    /\ timers # [p \in PatientIds |-> 0]
    /\ timeouts' = {t \in timeouts : \A p \in PatientIds : timers[p] # t.h}
    /\ cleared' = cleared \cup UNION {clearedBy(timers, timeouts, p, "clearAll") :
                                      p \in PatientIds}
    /\ timers' = [p \in PatientIds |-> 0]
    /\ UNCHANGED <<now, sockVars, nextHandle, completed, tcVars>>

\* the setTimeout callback: onComplete(); clearTimer(patientId);
\* notifyListeners(patientId) (no listener is subscribed)
TimeoutFires == \E t \in timeouts :
    /\ now >= t.due
    /\ completed' = [completed EXCEPT ![t.h] = @ + 1]
    /\ LET to1 == timeouts \ {t}
       IN  /\ timeouts' = clearTimerTimeouts(timers, to1, t.patientId)
           /\ cleared' = cleared \cup clearedBy(timers, to1, t.patientId, "fired")
    /\ timers' = clearTimer(timers, t.patientId)
    /\ UNCHANGED <<now, sockVars, nextHandle, tcVars>>

\* the setTimeout callback when onComplete() throws: the exception leaves
\* the callback before clearTimer(patientId) and notifyListeners(patientId)
TimeoutFiresThrows == \E t \in timeouts :
    /\ now >= t.due
    /\ completed' = [completed EXCEPT ![t.h] = @ + 1]
    /\ timeouts' = timeouts \ {t}
    /\ UNCHANGED <<now, sockVars, timers, nextHandle, cleared, tcVars>>

\* the setTimeout callback when onComplete() calls startTimer(patientId, d)
\* for its own patient: startTimer replaces the map entry with the new
\* handle, onComplete returns, and the callback goes on to
\* clearTimer(patientId), which finds the new handle
TimeoutFiresRestarts == \E t \in timeouts, d \in Durations :
    /\ now >= t.due
    /\ nextHandle <= MaxHandle
    /\ completed' = [completed EXCEPT ![t.h] = @ + 1]
    /\ nextHandle' = nextHandle + 1
    /\ LET p == t.patientId
           to1 == clearTimerTimeouts(timers, timeouts \ {t}, p)
           started == [h |-> nextHandle, patientId |-> p, due |-> now + Max(d, 0),
                       duration |-> d]
           to2 == to1 \cup {started}
           tm2 == [timers EXCEPT ![p] = nextHandle]
       IN  /\ timeouts' = clearTimerTimeouts(tm2, to2, p)
           /\ timers' = clearTimer(tm2, p)
           /\ cleared' = cleared \cup clearedBy(timers, timeouts \ {t}, p, "start")
                                  \cup clearedBy(tm2, to2, p, "fired")
    /\ UNCHANGED <<now, sockVars, tcVars>>

isTimerRunning(p) == timers[p] # 0

(* ------------------ EyeDropQueueScreen / TimerComponent --------------- *)

\* patient.timing.timeRemaining as the server reports it at this instant
ServerTimeRemaining(q) ==
    IF expiresAt[q] = -1 THEN 0 ELSE Max(expiresAt[q] - now, 0)

\* the patient list, and with it every TimerComponent, is rendered
ListVisible(ld, err) == ~ld /\ ~err

\* cleanup of the effect: clearInterval(interval)
EffectCleanup(due) == -1

\* React reconciles TimerComponent after the screen state changed:
\* mount (useState(0), then the effect), unmount (the effect's cleanup),
\* or a re-run of the effect when patient.timing.timeRemaining changed
RenderTimers(vis0, vis1, prop0, prop1) ==
    /\ timeRemaining' = [q \in Entries |->
         IF vis1 /\ (~vis0 \/ prop0[q] # prop1[q])
         THEN IF prop1[q] <= 0
              THEN (IF vis0 THEN timeRemaining[q] ELSE 0)
              ELSE prop1[q]
         ELSE IF vis0 /\ ~vis1 THEN 0 ELSE timeRemaining[q]]
    /\ intervalDue' = [q \in Entries |->
         IF vis1 /\ (~vis0 \/ prop0[q] # prop1[q])
         THEN IF prop1[q] <= 0
              THEN (IF vis0 THEN EffectCleanup(intervalDue[q]) ELSE -1)
              ELSE now + 1
         ELSE IF vis0 /\ ~vis1 THEN EffectCleanup(intervalDue[q])
              ELSE intervalDue[q]]
    /\ countdownEnd' = [q \in Entries |->
         IF vis1 /\ (~vis0 \/ prop0[q] # prop1[q]) /\ prop1[q] > 0
         THEN now + prop1[q] ELSE countdownEnd[q]]
    /\ shown' = [q \in Entries |->
         IF vis0 /\ ~vis1 THEN timeRemaining[q] ELSE shown[q]]

\* eyeDropQueueService.applyEyeDrops resolved on the server for an entry that
\* needs drops: the wait starts
ApplyEyeDrops == \E q \in Entries, d \in Durations :
    /\ expiresAt[q] = -1
    /\ now + d <= MaxTime
    /\ expiresAt' = [expiresAt EXCEPT ![q] = now + d]
    /\ fired' = [fired EXCEPT ![q] = 0]
    /\ shown' = [shown EXCEPT ![q] = -1]
    /\ UNCHANGED <<now, sockVars, tmVars, patients, loading, error, inflight,
                   timeRemaining, intervalDue, countdownEnd>>

\* eyeDropQueueService.markReady resolved on the server: the wait is over
MarkReady == \E q \in Entries :
    /\ expiresAt[q] # -1
    /\ expiresAt' = [expiresAt EXCEPT ![q] = -1]
    /\ UNCHANGED <<now, sockVars, tmVars, patients, loading, error, inflight,
                   timeRemaining, intervalDue, fired, countdownEnd, shown>>

\* fetchQueueData up to its await: setError(null), setLoading(true) unless
\* this is a pull-to-refresh, and the request whose answer the server
\* computes now
FetchStart == \E refresh \in BOOLEAN :
    /\ Len(inflight) < MaxInflight
    /\ error' = FALSE
    /\ loading' = (IF refresh THEN loading ELSE TRUE)
    /\ inflight' = Append(inflight, [q \in Entries |-> ServerTimeRemaining(q)])
    /\ RenderTimers(ListVisible(loading, error), ListVisible(loading', error'),
                    patients, patients)
    /\ UNCHANGED <<now, sockVars, tmVars, expiresAt, patients, fired>>

RemoveAt(seq, i) == [j \in 1..(Len(seq) - 1) |-> IF j < i THEN seq[j] ELSE seq[j + 1]]

\* fetchQueueData after its await, the request succeeded:
\* setPatients(data.patients), then setLoading(false)
FetchResolve == \E i \in 1..Len(inflight) :
    /\ patients' = inflight[i]
    /\ loading' = FALSE
    /\ inflight' = RemoveAt(inflight, i)
    /\ RenderTimers(ListVisible(loading, error), ListVisible(loading', error),
                    patients, patients')
    /\ UNCHANGED <<now, sockVars, tmVars, expiresAt, error, fired>>

\* fetchQueueData after its await, the request succeeded and reports any
\* timeRemaining, zero and negative values included
FetchResolveAny == \E i \in 1..Len(inflight), tr \in [Entries -> ZeroDurations \cup Durations] :
    /\ patients' = tr
    /\ loading' = FALSE
    /\ inflight' = RemoveAt(inflight, i)
    /\ RenderTimers(ListVisible(loading, error), ListVisible(loading', error),
                    patients, patients')
    /\ UNCHANGED <<now, sockVars, tmVars, expiresAt, error, fired>>

\* fetchQueueData after its await, the request failed: setError(message),
\* then setLoading(false)
FetchReject == \E i \in 1..Len(inflight) :
    /\ error' = TRUE
    /\ loading' = FALSE
    /\ inflight' = RemoveAt(inflight, i)
    /\ RenderTimers(ListVisible(loading, error), ListVisible(loading', error'),
                    patients, patients)
    /\ UNCHANGED <<now, sockVars, tmVars, expiresAt, patients, fired>>

\* one run of the setInterval callback; at zero it clears the interval and
\* calls onTimerExpire, i.e. handleTimerExpire: the alert and fetchQueueData()
IntervalTick == \E q \in Entries :
    /\ intervalDue[q] # -1
    /\ now >= intervalDue[q]
    /\ LET newTime == timeRemaining[q] - 1
       IN  IF newTime <= 0
           THEN /\ Len(inflight) < MaxInflight
                /\ fired' = [fired EXCEPT ![q] = @ + 1]
                /\ error' = FALSE
                /\ loading' = TRUE
                /\ inflight' = Append(inflight,
                                 [e \in Entries |-> ServerTimeRemaining(e)])
                /\ timeRemaining' = [e \in Entries |-> 0]
                /\ intervalDue' = [e \in Entries |-> -1]
                /\ shown' = [e \in Entries |->
                               IF e = q THEN 0 ELSE timeRemaining[e]]
           ELSE /\ intervalDue' = [intervalDue EXCEPT ![q] = now + 1]
                /\ timeRemaining' = [timeRemaining EXCEPT ![q] = newTime]
                /\ UNCHANGED <<fired, error, loading, inflight, shown>>
    /\ UNCHANGED <<now, sockVars, tmVars, expiresAt, patients, countdownEnd>>

\* the wall clock advances; JS timers may run late, never early
Tick ==
    /\ now < MaxTime
    /\ now' = now + 1
    /\ UNCHANGED <<timerVars, sockVars>>

(* ------------------- SocketManager and the transports ----------------- *)

Sockets == 1..MaxSockets
Hooks == {"eyeDrop", "doctor", "patients", "global"}
Qids == {"Q1"}

NoIdent == [staffType |-> "", staffId |-> ""]
Identities == {[staffType |-> "receptionist2", staffId |-> "s1"],
               [staffType |-> "optometrist", staffId |-> "s2"]}
\* the doctorId handed to useDoctorQueueSocket
DoctorId == "d1"

EventNames == {"queue:patient-on-hold", "queue:patient-removed",
               "queue:patient-resumed", "queue:patient-ready", "queue:updated",
               "queue:patient-assigned", "queue:patient-available",
               "queue:patient-processed", "queue:reordered",
               "queue:patient-called", "queue:patient-checked-in"}

\* a listener registered with socket.on(ev, fn); ident is the identity the
\* closure fn captured
L(ev, owner, fn, ident) == [ev |-> ev, owner |-> owner, fn |-> fn, ident |-> ident]

\* the lifecycle listeners connect() registers on a transport it creates
ManagerListeners ==
    {L(ev, "manager", "lifecycle", NoIdent) :
        ev \in {"connect", "disconnect", "connect_error", "reconnect",
                "reconnect_error", "reconnect_failed"}}

isSocketConnected(isC, sk, tr) == isC /\ sk # 0 /\ tr[sk] = "connected"

\* connect(serverUrl): a transport is created unless one exists and the
\* manager's flag says it is connected
NeedsNewSocket == socket = 0 \/ ~isConnected
ConnectSock == IF NeedsNewSocket THEN nsock + 1 ELSE socket
ConnectListeners ==
    IF NeedsNewSocket THEN [listeners EXCEPT ![nsock + 1] = ManagerListeners]
    ELSE listeners
ConnectEffects ==
    /\ NeedsNewSocket => nsock < MaxSockets
    /\ socket' = ConnectSock
    /\ nsock' = (IF NeedsNewSocket THEN nsock + 1 ELSE nsock)
    /\ transport' = (IF NeedsNewSocket
                     THEN [transport EXCEPT ![nsock + 1] = "connecting"]
                     ELSE transport)
    /\ UNCHANGED isConnected

\* socket.emit(...): sent when the socket is connected, buffered otherwise
EmitJoins(js, tr, s, msgs) ==
    IF tr[s] = "connected" THEN [js EXCEPT ![s] = @ \cup msgs] ELSE js
EmitBuffer(sb, tr, s, msgs) ==
    IF tr[s] = "connected" THEN sb ELSE [sb EXCEPT ![s] = @ \cup msgs]

\* getSocketManager().connect(url) called outside a hook
ManagerConnect ==
    /\ NeedsNewSocket
    /\ ConnectEffects
    /\ listeners' = ConnectListeners
    /\ UNCHANGED <<now, timerVars, obsVars, retryVars, wsVars, appVars, sendBuffer, joins, hookVars>>

\* a disconnect() that also tears the timers down
ManagerDisconnectClearsTimers ==
    /\ socket # 0
    /\ transport' = [transport EXCEPT ![socket] = "closed"]
    /\ joins' = [joins EXCEPT ![socket] = {}]
    /\ socket' = 0
    /\ isConnected' = FALSE
    /\ heldAtDisconnect' = nextHandle
    /\ timers' = [p \in PatientIds |-> 0]
    /\ timeouts' = {}
    /\ UNCHANGED <<now, nextHandle, completed, cleared, tcVars, nsock, listeners,
                   sendBuffer, hookVars, appVars, retryVars, wsVars>>

\* SocketManager.disconnect(): socket.disconnect(), socket = null,
\* isConnected = false
ManagerDisconnect ==
    /\ socket # 0
    /\ transport' = [transport EXCEPT ![socket] = "closed"]
    /\ joins' = [joins EXCEPT ![socket] = {}]
    /\ socket' = 0
    /\ isConnected' = FALSE
    /\ heldAtDisconnect' = nextHandle
    /\ UNCHANGED <<now, timerVars, nsock, listeners, sendBuffer, hookVars, appVars,
                   retryVars, wsVars>>

(* ------------------------------ the hooks ----------------------------- *)

\* a joinRooms that knows 'ophthalmologist' but not 'doctor'
JoinRoomsNoDoctor(staffType, staffId) ==
    IF staffType = "receptionist2"
    THEN {[channel |-> "queue:join-receptionist2", arg |-> ""],
          [channel |-> "queue:join-ophthalmologist", arg |-> ""]}
    ELSE IF staffType = "ophthalmologist"
    THEN {[channel |-> "queue:join-doctor", arg |-> staffId],
          [channel |-> "queue:join-ophthalmologist", arg |-> ""]}
    ELSE IF staffType = "optometrist"
    THEN {[channel |-> "queue:join-optometrist", arg |-> ""]}
    ELSE {}

\* joinRooms of useGlobalQueueNotifications: the directives per staff type
JoinRooms(staffType, staffId) ==
    IF staffType = "receptionist2"
    THEN {[channel |-> "queue:join-receptionist2", arg |-> ""],
          [channel |-> "queue:join-ophthalmologist", arg |-> ""]}
    ELSE IF staffType = "ophthalmologist" \/ staffType = "doctor"
    THEN {[channel |-> "queue:join-doctor", arg |-> staffId],
          [channel |-> "queue:join-ophthalmologist", arg |-> ""]}
    ELSE IF staffType = "optometrist"
    THEN {[channel |-> "queue:join-optometrist", arg |-> ""]}
    ELSE {}

\* joinEyeDropRoom, joinDoctorRoom, joinQueueRooms, joinRooms
HookDirectives(h, ident) ==
    CASE h = "eyeDrop" -> {[channel |-> "queue:join-receptionist2", arg |-> ""]}
      [] h = "doctor" -> {[channel |-> "queue:join-doctor", arg |-> DoctorId],
                          [channel |-> "queue:join-ophthalmologist", arg |-> ""]}
      [] h = "patients" -> {[channel |-> "queue:join-optometrist", arg |-> ""],
                            [channel |-> "queue:join-ophthalmologist", arg |-> ""]}
      [] h = "global" -> JoinRooms(ident.staffType, ident.staffId)

Tagged(msgs, h, ident) ==
    {[channel |-> m.channel, arg |-> m.arg, hook |-> h, ident |-> ident] : m \in msgs}

\* the event handlers each hook subscribes
EyeDropHandlers ==
    {L("queue:patient-on-hold", "eyeDrop", "handlePatientOnHold", NoIdent),
     L("queue:patient-removed", "eyeDrop", "handlePatientRemoved", NoIdent),
     L("queue:patient-resumed", "eyeDrop", "handlePatientResumed", NoIdent),
     L("queue:patient-ready", "eyeDrop", "handlePatientReady", NoIdent),
     L("queue:updated", "eyeDrop", "handleQueueUpdate", NoIdent)}

DoctorHandlers ==
    {L("queue:patient-assigned", "doctor", "handlePatientAssigned", NoIdent),
     L("queue:patient-removed", "doctor", "handlePatientRemoved", NoIdent),
     L("queue:patient-available", "doctor", "handlePatientAvailable", NoIdent),
     L("queue:patient-processed", "doctor", "handlePatientProcessed", NoIdent)}

PatientsHandlers ==
    {L("queue:updated", "patients", "handleQueueUpdate", NoIdent),
     L("queue:reordered", "patients", "handleQueueReordered", NoIdent),
     L("queue:patient-assigned", "patients", "handlePatientAssigned", NoIdent),
     L("queue:patient-called", "patients", "handlePatientCalled", NoIdent)}

GlobalHandlers(ident) ==
    {L("queue:patient-on-hold", "global", "onPatientOnHold", ident),
     L("queue:patient-available", "global", "onPatientAvailable", ident),
     L("queue:patient-assigned", "global", "onPatientAssigned", ident),
     L("queue:patient-resumed", "global", "onPatientResumed", ident),
     L("queue:patient-ready", "global", "onPatientReady", ident)}

\* the 'connect' and 'reconnect' listeners: arrow functions that delay the
\* join with setTimeout, or (doctor hook) the join function itself
JoinListeners(h, ident) ==
    IF h = "doctor"
    THEN {L("connect", "doctor", "joinDoctorRoom", NoIdent),
          L("reconnect", "doctor", "joinDoctorRoom", NoIdent)}
    ELSE {L("connect", h, "delayedJoin", ident),
          L("reconnect", h, "delayedJoin", ident)}

HookHandlers(h, ident) ==
    CASE h = "eyeDrop" -> EyeDropHandlers
      [] h = "doctor" -> DoctorHandlers
      [] h = "patients" -> PatientsHandlers
      [] h = "global" -> GlobalHandlers(ident)

\* the effect body of a hook: connect(), the join listeners, for the global
\* hook an immediate joinRooms() when already connected, the event handlers
HookMount(h, ident) ==
    /\ mountedSock[h] = 0
    /\ ConnectEffects
    /\ listeners' = [ConnectListeners EXCEPT ![ConnectSock] =
                        @ \cup JoinListeners(h, ident) \cup HookHandlers(h, ident)]
    /\ mountedSock' = [mountedSock EXCEPT ![h] = ConnectSock]
    /\ LET msgs == IF h = "global" /\ isSocketConnected(isConnected, socket', transport')
                   THEN Tagged(HookDirectives(h, ident), h, ident) ELSE {}
       IN  /\ joins' = EmitJoins(joins, transport', ConnectSock, msgs)
           /\ sendBuffer' = EmitBuffer(sendBuffer, transport', ConnectSock, msgs)
    /\ UNCHANGED <<now, timerVars, obsVars, retryVars, wsVars, appVars, pendingJoins, stale, granted, alerts>>

EyeDropMount == HookMount("eyeDrop", NoIdent) /\ UNCHANGED globalIdent
DoctorMount == HookMount("doctor", NoIdent) /\ UNCHANGED globalIdent
PatientsMount == HookMount("patients", NoIdent) /\ UNCHANGED globalIdent
GlobalMount == \E ident \in Identities :
    /\ HookMount("global", ident)
    /\ globalIdent' = ident

\* the roles and ids the app hands to useGlobalQueueNotifications
StaffTypes == {"receptionist2", "ophthalmologist", "doctor", "optometrist", "nurse"}
StaffIds == {"s1", "s2"}
AllIdentities == [staffType : StaffTypes, staffId : StaffIds]

\* the global hook mounted for any staff member
GlobalMountAs == \E ident \in AllIdentities :
    /\ HookMount("global", ident)
    /\ globalIdent' = ident

\* what the cleanup of each hook leaves registered on its socket
EyeDropCleanup(ls) ==
    {l \in ls : l \notin EyeDropHandlers /\ l.ev \notin {"connect", "reconnect"}}

DoctorCleanup(ls) ==
    ls \ (DoctorHandlers \cup JoinListeners("doctor", NoIdent))

PatientsCleanup(ls) ==
    (ls \ PatientsHandlers)
        \cup {L("queue:patient-checked-in", "patients", "handlePatientCheckedIn", NoIdent)}

GlobalCleanup(ls, ident) == ls \ GlobalHandlers(ident)

HookCleanup(h, ls) ==
    CASE h = "eyeDrop" -> EyeDropCleanup(ls)
      [] h = "doctor" -> DoctorCleanup(ls)
      [] h = "patients" -> PatientsCleanup(ls)
      [] h = "global" -> GlobalCleanup(ls, globalIdent)

HookUnmount(h) ==
    /\ mountedSock[h] # 0
    /\ listeners' = [listeners EXCEPT ![mountedSock[h]] = HookCleanup(h, @)]
    /\ mountedSock' = [mountedSock EXCEPT ![h] = 0]
    /\ UNCHANGED <<now, timerVars, obsVars, retryVars, wsVars, appVars, socket, isConnected, nsock, transport,
                   sendBuffer, joins, pendingJoins, stale, granted, alerts>>

EyeDropUnmount == HookUnmount("eyeDrop") /\ UNCHANGED globalIdent
DoctorUnmount == HookUnmount("doctor") /\ UNCHANGED globalIdent
PatientsUnmount == HookUnmount("patients") /\ UNCHANGED globalIdent
GlobalUnmount == HookUnmount("global") /\ globalIdent' = NoIdent

(* ------------------------ transport lifecycle ------------------------- *)

\* the socket (re)connected: buffered packets are flushed and the listeners
\* of the emitted events run; evs is {"connect"}, or with a client that
\* also emits 'reconnect' on the socket, {"reconnect", "connect"}
DispatchConnect(s, evs) ==
    LET ls == {l \in listeners[s] : l.ev \in evs}
        isC == IF \E l \in ls : l.owner = "manager" THEN TRUE ELSE isConnected
        tr == [transport EXCEPT ![s] = "connected"]
        direct == IF (\E l \in ls : l.fn = "joinDoctorRoom")
                     /\ isSocketConnected(isC, socket, tr)
                  THEN Tagged(HookDirectives("doctor", NoIdent), "doctor", NoIdent)
                  ELSE {}
    IN  /\ transport' = tr
        /\ isConnected' = isC
        /\ joins' = [joins EXCEPT ![s] = sendBuffer[s] \cup direct]
        /\ sendBuffer' = [sendBuffer EXCEPT ![s] = {}]
        /\ pendingJoins' = pendingJoins \cup
               {[hook |-> l.owner, ident |-> l.ident, sock |-> s,
                 reconn |-> (l.ev = "reconnect")] :
                    l \in {x \in ls : x.fn = "delayedJoin"}}
        /\ Cardinality(pendingJoins') <= MaxPending
        /\ attempts' = [attempts EXCEPT ![s] = 0]
        /\ UNCHANGED <<now, timerVars, obsVars, wsVars, appVars, socket, nsock, listeners, mountedSock,
                       globalIdent, stale, granted, alerts>>

TransportConnects == \E s \in Sockets :
    /\ transport[s] = "connecting"
    /\ DispatchConnect(s, {"connect"})

TransportReconnects == \E s \in Sockets, withReconnectEvent \in BOOLEAN :
    /\ transport[s] = "disconnected"
    /\ DispatchConnect(s, IF withReconnectEvent THEN {"reconnect", "connect"}
                          ELSE {"connect"})

\* the connection is lost: 'disconnect' runs the manager's listener
TransportDisconnects == \E s \in Sockets :
    /\ transport[s] = "connected"
    /\ transport' = [transport EXCEPT ![s] = "disconnected"]
    /\ isConnected' = FALSE
    /\ joins' = [joins EXCEPT ![s] = {}]
    /\ attempts' = [attempts EXCEPT ![s] = 0]
    /\ UNCHANGED <<now, timerVars, obsVars, wsVars, appVars, socket, nsock, listeners, sendBuffer,
                   hookVars>>

\* reconnectionAttempts of the options connect() hands to io()
reconnectionAttempts == 5

\* the manager's 'connect_error' listener: isConnected = false
OnConnectError(s) ==
    IF \E l \in listeners[s] : l.ev = "connect_error" /\ l.owner = "manager"
    THEN FALSE ELSE isConnected

\* the first connection attempt of a transport fails: 'connect_error', and
\* with reconnection: true the transport starts its reconnection attempts
ConnectFails == \E s \in Sockets :
    /\ transport[s] = "connecting"
    /\ transport' = [transport EXCEPT ![s] = "disconnected"]
    /\ isConnected' = OnConnectError(s)
    /\ attempts' = [attempts EXCEPT ![s] = 0]
    /\ UNCHANGED <<now, timerVars, obsVars, wsVars, appVars, socket, nsock, listeners, sendBuffer,
                   joins, hookVars>>

\* a handler of 'reconnect_failed' that starts the attempts over
AfterAttemptRetries(n) == "disconnected"

\* after the n-th failed attempt: further attempts while n is below
\* reconnectionAttempts, then 'reconnect_failed', whose listener only logs
AfterAttempt(n) == IF n >= reconnectionAttempts THEN "failed" ELSE "disconnected"

\* a reconnection attempt fails: 'connect_error' (and 'reconnect_error',
\* whose listener only logs)
ReconnectFails == \E s \in Sockets :
    /\ transport[s] = "disconnected"
    /\ attempts' = [attempts EXCEPT ![s] = @ + 1]
    /\ transport' = [transport EXCEPT ![s] = AfterAttempt(attempts[s] + 1)]
    /\ isConnected' = OnConnectError(s)
    /\ UNCHANGED <<now, timerVars, obsVars, wsVars, appVars, socket, nsock, listeners, sendBuffer,
                   joins, hookVars>>

\* the queries a delayed join invalidates after a 'reconnect'
ReconnectInvalidates(h) ==
    CASE h = "eyeDrop" -> {"eyeDropQueue"}
      [] h = "patients" -> {"optometrist-queue", "doctor-queues"}
      [] OTHER -> {}

\* a setTimeout(join, 100 | 150) callback runs
PendingJoinRuns == \E t \in pendingJoins :
    LET msgs == IF isSocketConnected(isConnected, socket, transport)
                THEN Tagged(HookDirectives(t.hook, t.ident), t.hook, t.ident)
                ELSE {}
    IN  /\ pendingJoins' = pendingJoins \ {t}
        /\ joins' = EmitJoins(joins, transport, t.sock, msgs)
        /\ sendBuffer' = EmitBuffer(sendBuffer, transport, t.sock, msgs)
        /\ stale' = stale \cup (IF t.reconn THEN ReconnectInvalidates(t.hook) ELSE {})
        /\ updatePending' = (updatePending \/ (t.reconn /\ t.hook = "eyeDrop"))
        /\ UNCHANGED <<now, timerVars, obsVars, retryVars, wsVars, tasks, nseq, lastEvent, payloadVars,
                       pushVars, socket, isConnected, nsock, transport,
                       listeners, mountedSock, globalIdent, granted, alerts>>

(* -------------------------- notification text ------------------------ *)

\* longest reasons array carried by a payload
MaxReasons == 2

\* a field the payload does not carry
Undefined == "undefined"

\* JavaScript truthiness of a string-or-undefined field
Truthy(x) == x # Undefined /\ x # ""

NameValues == {Undefined, "", "Ann"}
ReasonWords == {"", "dilation"}

\* the patient object of a payload: <<>> when it has none
PatientObjects ==
    {<<>>} \cup
    {<<[fullName |-> fn, firstName |-> f, lastName |-> f, name |-> n]>> :
        fn \in {Undefined, "Ann Lee"}, f \in {Undefined, "Ann"},
        n \in {Undefined, "Ann L"}}

\* reasons: missing, a non-array value, or an array of strings
ReasonsValues ==
    {[kind |-> "missing", items |-> <<>>], [kind |-> "string", items |-> <<>>]}
    \cup {[kind |-> "array", items |-> it] :
            it \in UNION {[1..n -> ReasonWords] : n \in 0..MaxReasons}}

Payloads ==
    [patient : PatientObjects, fullName : {Undefined, "Ann Lee"},
     patientName : NameValues, firstName : NameValues, lastName : NameValues,
     queueEntryId : {Undefined, "Q1234567"}, patientId : {Undefined, "P1"},
     reasons : ReasonsValues]

NoPayload ==
    [patient |-> <<>>, fullName |-> Undefined, patientName |-> Undefined,
     firstName |-> Undefined, lastName |-> Undefined, queueEntryId |-> Undefined,
     patientId |-> Undefined, reasons |-> [kind |-> "missing", items |-> <<>>]]

NoRendered == [name |-> Undefined, reasons |-> Undefined,
               globalName |-> Undefined, globalReasons |-> Undefined]

\* Array.prototype.join(', ')
RECURSIVE Join(_)
Join(items) ==
    IF Len(items) = 0 THEN ""
    ELSE IF Len(items) = 1 THEN items[1]
    ELSE items[1] \o ", " \o Join(Tail(items))

\* String.prototype.slice(-4)
SliceLast4(str) == IF Len(str) <= 4 THEN str ELSE SubSeq(str, Len(str) - 3, Len(str))

\* the handlers of useEyeDropQueueSocket build enrichedData.patient from the
\* name fields of the event when the event has no patient object
Enrich(d) ==
    IF Truthy(d.firstName) /\ Truthy(d.lastName) /\ d.patient = <<>>
    THEN [d EXCEPT !.patient =
            <<[fullName |-> IF Truthy(d.patientName) THEN d.patientName
                            ELSE d.firstName \o " " \o d.lastName,
               firstName |-> d.firstName, lastName |-> d.lastName,
               name |-> Undefined]>>]
    ELSE IF Truthy(d.patientName) /\ d.patient = <<>>
    THEN [d EXCEPT !.patient =
            <<[fullName |-> d.patientName, firstName |-> Undefined,
               lastName |-> Undefined, name |-> Undefined]>>]
    ELSE d

\* the handler awaits fetchPatientDetails for this (enriched) payload
NeedsLookup(d) == d.patient = <<>> /\ Truthy(d.patientId)

\* sendPatientNotification: patientName
PatientName(d) ==
    IF d.patient # <<>>
    THEN LET pt == d.patient[1]
         IN  IF Truthy(pt.fullName) THEN pt.fullName
             ELSE IF Truthy(pt.firstName) /\ Truthy(pt.lastName)
                  THEN pt.firstName \o " " \o pt.lastName
             ELSE IF Truthy(pt.name) THEN pt.name
             ELSE "Unknown Patient"
    ELSE IF Truthy(d.fullName) THEN d.fullName
    ELSE IF Truthy(d.patientName) THEN d.patientName
    ELSE IF Truthy(d.firstName) /\ Truthy(d.lastName)
         THEN d.firstName \o " " \o d.lastName
    ELSE IF Truthy(d.queueEntryId) THEN "Patient #" \o SliceLast4(d.queueEntryId)
    ELSE "Unknown Patient"

\* sendPatientNotification: reasons
ReasonsText(d) ==
    IF d.reasons.kind = "array" THEN Join(d.reasons.items)
    ELSE "Eye examination preparation"

\* useGlobalQueueNotifications.onPatientOnHold: name and reasons
GlobalName(d) ==
    IF Truthy(d.patientName) THEN d.patientName
    ELSE IF Truthy(d.firstName) /\ Truthy(d.lastName)
         THEN d.firstName \o " " \o d.lastName
    ELSE "A patient"

GlobalReasons(d) ==
    IF d.reasons.kind = "array" THEN Join(d.reasons.items) ELSE "Eye drops"

\* 'queue:patient-on-hold' with this payload reaches handlePatientOnHold and
\* onPatientOnHold, which interpolate their texts
RenderTexts ==
    /\ rendered = NoRendered
    /\ rendered' = [name |-> PatientName(Enrich(payload)),
                    reasons |-> ReasonsText(Enrich(payload)),
                    globalName |-> GlobalName(payload),
                    globalReasons |-> GlobalReasons(payload)]
    /\ UNCHANGED <<now, timerVars, connVars, hookVars, obsVars, retryVars, wsVars, pipeVars, pushVars,
                   payload>>

(* --------------------------- server events ---------------------------- *)

\* number of server events delivered in one behaviour
MaxEvents == 2

\* the handler schedules a local notification: scheduleLocalNotification
\* always does, sendPatientNotification when permission is granted
Notifies(l) ==
    \/ l.owner = "global"
    \/ /\ l.owner = "eyeDrop"
       /\ l.fn \in {"handlePatientOnHold", "handlePatientResumed", "handlePatientReady"}
       /\ granted

\* the query keys the handler invalidates
Invalidates(l) ==
    CASE l.owner = "eyeDrop" -> {"eyeDropQueue"}
      [] l.owner = "doctor" -> {"doctorQueue"}
      [] l.owner = "patients" ->
           (IF l.fn = "handlePatientAssigned" THEN {"doctor-queues"}
            ELSE IF l.fn = "handlePatientCheckedIn" THEN {"optometrist-queue"}
            ELSE {"optometrist-queue", "doctor-queues"})
      [] OTHER -> {}

\* the handlers that await (the lookup, then sendPatientNotification) before
\* they invalidate
Awaits(l) ==
    /\ l.owner = "eyeDrop"
    /\ l.fn \in {"handlePatientOnHold", "handlePatientResumed", "handlePatientReady"}

\* payloads the server sends: with a patient name, with a patient id only,
\* with neither
EventPayloads ==
    {[NoPayload EXCEPT !.patientName = "Ann", !.queueEntryId = "Q1234567"],
     [NoPayload EXCEPT !.patientId = "P1", !.queueEntryId = "Q1234567"],
     [NoPayload EXCEPT !.queueEntryId = "Q1234567"]}

\* what GET /patients/:id answers
FetchedPatient ==
    <<[fullName |-> "Ann Lee", firstName |-> Undefined, lastName |-> Undefined,
       name |-> Undefined]>>

\* the name the handlers of the global hook interpolate
GlobalNameFor(fn, d) ==
    IF fn \in {"onPatientOnHold", "onPatientResumed"} THEN GlobalName(d)
    ELSE IF Truthy(d.patientName) THEN d.patientName ELSE "A patient"

\* a handler invocation suspended at an await
Task(n, l, qid, d, pc, name) ==
    [seq |-> n, l |-> l, qid |-> qid, data |-> d, pc |-> pc, name |-> name]

\* an event name the server may send that no hook subscribes to
UnknownNames == {"queue:patient-transferred"}

\* a socket that hands every event to every handler registered on it
ListenersForAny(s, ev) ==
    {l \in listeners[s] : l.owner # "manager" /\ l.ev \notin {"connect", "reconnect"}}

\* the listeners socket.on() registered for this event name
ListenersFor(s, ev) == {l \in listeners[s] : l.ev = ev}

\* the server pushes an event to a connected socket: every listener of the
\* event on that socket runs up to its first await. The synchronous
\* handlers invalidate at once; the handlers of the global hook have called
\* scheduleNotificationAsync; handlePatientOnHold / Resumed / Ready are
\* suspended at fetchPatientDetails or at getPermissionsAsync
Deliver(s, ev, qid, d) ==
    LET ls == ListenersFor(s, ev)
        sync == {l \in ls : ~Awaits(l)}
        keys == UNION {Invalidates(l) : l \in sync}
        started ==
            {Task(nseq + 1, l, qid, Enrich(d),
                  IF l.fn # "handlePatientReady" /\ NeedsLookup(Enrich(d))
                  THEN "lookup" ELSE "perm", Undefined) : l \in ls \ sync}
            \cup {Task(nseq + 1, l, qid, d, "sched", GlobalNameFor(l.fn, d)) :
                    l \in {x \in sync : x.owner = "global"}}
    IN  /\ transport[s] = "connected"
        /\ nseq < MaxEvents
        /\ alerts' = [key \in DOMAIN alerts |->
                        alerts[key] + Cardinality({l \in sync :
                                          Notifies(l) /\ <<l.ev, qid>> = key})]
        /\ \A key \in DOMAIN alerts : alerts'[key] <= MaxAlerts
        /\ stale' = stale \cup keys
        /\ updatePending' = (updatePending \/ \E l \in sync : l.owner = "eyeDrop")
        /\ tasks' = tasks \cup started
        /\ nseq' = nseq + 1
        /\ lastEvent' = [seq |-> nseq + 1, ev |-> ev, sock |-> s, keys |-> keys,
                         hooks |-> {h \in Hooks : mountedSock[h] = s},
                         invoked |-> {<<l.owner, l.fn>> : l \in ls},
                         managerDown |-> (socket = 0),
                         afterUnknown |-> (lastEvent.ev \in UnknownNames)]
        /\ UNCHANGED <<now, timerVars, obsVars, retryVars, wsVars, payloadVars, pushVars,
                       connVars, mountedSock, globalIdent, pendingJoins, granted>>

\* an event of one of the names the hooks subscribe to
ServerEvent == \E s \in Sockets, ev \in EventNames, qid \in Qids, d \in EventPayloads :
    Deliver(s, ev, qid, d)

\* an event of a name no hook subscribes to
UnrecognisedEvent == \E s \in Sockets, ev \in UnknownNames, qid \in Qids, d \in EventPayloads :
    Deliver(s, ev, qid, d)

\* a handler that waits for the lookup of an earlier event
HeldBackByLookup(t) == \E u \in tasks : u.seq < t.seq /\ u.pc = "lookup"

\* socket.on() starts each handler when its event arrives and does not wait
\* for the promise an earlier handler returned
HeldBack(t) == FALSE

\* a failed lookup that escapes the handler
AfterLookupThrows(t, details) ==
    IF details = <<>> THEN {}
    ELSE {[t EXCEPT !.pc = "perm", !.data.patient = details]}

\* fetchPatientDetails answered: the details become enrichedData.patient; it
\* catches its errors and answers null, which leaves the payload as it was
AfterLookup(t, details) ==
    {[t EXCEPT !.pc = "perm",
               !.data.patient = IF details = <<>> THEN @ ELSE details]}

LookupSettlesFor(t) == \E found \in BOOLEAN :
    /\ t \in tasks
    /\ t.pc = "lookup"
    /\ ~HeldBack(t)
    /\ tasks' = (tasks \ {t}) \cup AfterLookup(t, IF found THEN FetchedPatient ELSE <<>>)
    /\ UNCHANGED <<now, timerVars, connVars, hookVars, obsVars, retryVars, wsVars, nseq, lastEvent,
                   updatePending, payloadVars, pushVars>>

LookupSettles == \E t \in tasks : LookupSettlesFor(t)

\* the tail of a handler that invalidates only after a delivered alert
HandlerTailIfDelivered(l, delivered) == IF delivered THEN Invalidates(l) ELSE {}

\* the statements after `await sendPatientNotification(...)`:
\* invalidateQueries and onDataUpdate(), whatever became of the alert
HandlerTail(l, delivered) == Invalidates(l)

\* sendPatientNotification returned and the handler runs to its end
Finish(t, delivered) ==
    /\ tasks' = tasks \ {t}
    /\ stale' = stale \cup HandlerTail(t.l, delivered)
    /\ updatePending' = (updatePending \/ HandlerTail(t.l, delivered) # {})
    /\ lastEvent' = IF t.seq = lastEvent.seq
                    THEN [lastEvent EXCEPT !.keys = @ \cup HandlerTail(t.l, delivered)]
                    ELSE lastEvent

\* getPermissionsAsync answered: not granted, sendPatientNotification
\* returns; granted, it builds the texts and calls scheduleNotificationAsync
PermissionSettlesFor(t) ==
    /\ t \in tasks
    /\ t.pc = "perm"
    /\ ~HeldBack(t)
    /\ IF Notifies(t.l)
       THEN /\ alerts[<<t.l.ev, t.qid>>] < MaxAlerts
            /\ alerts' = [alerts EXCEPT ![<<t.l.ev, t.qid>>] = @ + 1]
            /\ tasks' = (tasks \ {t}) \cup
                            {[t EXCEPT !.pc = "sched", !.name = PatientName(t.data)]}
            /\ UNCHANGED <<stale, updatePending, lastEvent>>
       ELSE /\ Finish(t, FALSE)
            /\ UNCHANGED alerts
    /\ UNCHANGED <<now, timerVars, connVars, obsVars, retryVars, wsVars, mountedSock, globalIdent,
                   pendingJoins, granted, nseq, payloadVars, pushVars>>

PermissionSettles == \E t \in tasks : PermissionSettlesFor(t)

\* scheduleNotificationAsync resolved or rejected (the rejection is caught
\* and logged); scheduleLocalNotification then triggers the haptic
ScheduleSettlesFor(t) == \E delivered \in BOOLEAN :
    /\ t \in tasks
    /\ t.pc = "sched"
    /\ ~HeldBack(t)
    /\ IF t.l.owner = "global"
       THEN /\ tasks' = tasks \ {t}
            /\ UNCHANGED <<stale, updatePending, lastEvent>>
       ELSE Finish(t, delivered)
    /\ UNCHANGED <<now, timerVars, connVars, obsVars, retryVars, wsVars, mountedSock, globalIdent,
                   pendingJoins, granted, alerts, nseq, payloadVars, pushVars>>

ScheduleSettles == \E t \in tasks : ScheduleSettlesFor(t)

\* the invalidated queries refetch and the screen reloads its data
Refetch ==
    /\ stale # {} \/ updatePending
    /\ stale' = {}
    /\ updatePending' = FALSE
    /\ UNCHANGED <<now, timerVars, connVars, obsVars, retryVars, wsVars, mountedSock, globalIdent,
                   pendingJoins, granted, alerts, tasks, nseq, lastEvent,
                   payloadVars, pushVars>>

\* the coalescing window of the dedupe key is over
WindowElapses ==
    /\ \E k \in DOMAIN alerts : alerts[k] # 0
    /\ alerts' = [k \in DOMAIN alerts |-> 0]
    /\ UNCHANGED <<now, timerVars, obsVars, retryVars, wsVars, appVars, connVars, mountedSock, globalIdent,
                   pendingJoins, stale, granted>>

(* ----------------------- AppContent: push token ----------------------- *)

\* number of setUser() calls in one behaviour
MaxUserChanges == 3

\* isAuthenticated() of the render that created setupPush
isAuthenticated(u) == u # 0

\* the effect on [user]: setupPush() up to its first await. With a user and
\* nothing registered it awaits initialize(); without a user and with a
\* registration it awaits unregisterFromBackend(), which returns at once
\* when the service holds no token
SetupPush(u, n) ==
    IF u # 0 /\ isAuthenticated(u) /\ ~pushRegistered
    THEN /\ setups' = setups \cup {[id |-> n, pc |-> "init"]}
         /\ UNCHANGED pushRegistered
    ELSE IF u = 0 /\ pushRegistered
    THEN IF pushToken
         THEN /\ setups' = setups \cup {[id |-> n, pc |-> "unreg"]}
              /\ UNCHANGED pushRegistered
         ELSE /\ pushRegistered' = FALSE
              /\ UNCHANGED setups
    ELSE UNCHANGED <<setups, pushRegistered>>

\* setUser(u): the component renders and the effect runs
SetUser(u) ==
    /\ userChanges < MaxUserChanges
    /\ userChanges' = userChanges + 1
    /\ user' = u
    /\ SetupPush(u, userChanges + 1)
    /\ UNCHANGED <<now, timerVars, connVars, hookVars, obsVars, retryVars, wsVars, pipeVars, payloadVars,
                   pushToken, backendToken>>

\* login(userData): a session begins
Login ==
    /\ user = 0
    /\ SetUser(userChanges + 1)
    /\ registerCalls' = 0

\* the profile is loaded again: setUser with a new object of the same user
ProfileRefresh ==
    /\ user # 0
    /\ SetUser(userChanges + 1)
    /\ UNCHANGED registerCalls

\* logout(): setUser(null)
Logout ==
    /\ user # 0
    /\ SetUser(0)
    /\ UNCHANGED registerCalls

\* initialize() settled: with a token, registerWithBackend posts it; with
\* null, setupPush ends
InitializeSettles == \E t \in setups, token \in BOOLEAN :
    /\ t.pc = "init"
    /\ IF token
       THEN /\ pushToken' = TRUE
            /\ registerCalls' = registerCalls + 1
            /\ setups' = (setups \ {t}) \cup {[t EXCEPT !.pc = "reg"]}
       ELSE /\ setups' = setups \ {t}
            /\ UNCHANGED <<pushToken, registerCalls>>
    /\ UNCHANGED <<now, timerVars, connVars, hookVars, obsVars, retryVars, wsVars, pipeVars, payloadVars,
                   user, userChanges, pushRegistered, backendToken>>

\* the register-token request settled (errors are caught and logged), then
\* pushRegistered.current = true
RegisterSettles == \E t \in setups, ok \in BOOLEAN :
    /\ t.pc = "reg"
    /\ backendToken' = IF ok THEN "registered" ELSE backendToken
    /\ pushRegistered' = TRUE
    /\ setups' = setups \ {t}
    /\ UNCHANGED <<now, timerVars, connVars, hookVars, obsVars, retryVars, wsVars, pipeVars, payloadVars,
                   user, userChanges, pushToken, registerCalls>>

\* the unregister-token request settled (errors are caught and logged), then
\* cleanup() and pushRegistered.current = false
UnregisterSettles == \E t \in setups, ok \in BOOLEAN :
    /\ t.pc = "unreg"
    /\ backendToken' = IF ok THEN "none"
                       ELSE IF backendToken = "registered" THEN "kept"
                       ELSE backendToken
    /\ pushRegistered' = FALSE
    /\ setups' = setups \ {t}
    /\ UNCHANGED <<now, timerVars, connVars, hookVars, obsVars, retryVars, wsVars, pipeVars, payloadVars,
                   user, userChanges, pushToken, registerCalls>>

(* --------------------------- WebSocketService ------------------------- *)

\* number of subscribe() calls in one behaviour
MaxSubs == 2

\* the socket events connect() forwards to handleMessage
WsEvents == {"queue_updated", "eyedrop_applied", "timer_updated"}
\* a socket event connect() registers no listener for
WsOtherEvents == {"queue_reset"}
Callbacks == {"cb1", "cb2"}

Contains(seq, x) == \E i \in 1..Len(seq) : seq[i] = x

\* Set.prototype.add: a value the Set holds already is not added again
SetAdd(seq, x) == IF Contains(seq, x) THEN seq ELSE Append(seq, x)

\* Set.prototype.delete
SetDelete(seq, x) == SelectSeq(seq, LAMBDA y : y # x)

NoDispatch == [ev |-> "", called |-> <<>>, caught |-> {}, escaped |-> FALSE]

\* subscribe(event, callback); an event without an entry in the Map and an
\* event with an empty Set behave alike and are both the empty sequence
WsSubscribe == \E ev \in WsEvents, cb \in Callbacks :
    /\ Cardinality(wsSubs) < MaxSubs
    /\ wsListeners' = [wsListeners EXCEPT ![ev] = SetAdd(@, cb)]
    /\ wsSubs' = wsSubs \cup
                    {[id |-> Cardinality(wsSubs) + 1, ev |-> ev, cb |-> cb, live |-> TRUE]}
    /\ UNCHANGED <<now, timerVars, connVars, hookVars, obsVars, retryVars, appVars, wsLast>>

\* the function subscribe() returned is called, for the first time or again
WsUnsubscribe == \E sub \in wsSubs :
    /\ wsListeners' = [wsListeners EXCEPT ![sub.ev] = SetDelete(@, sub.cb)]
    /\ wsSubs' = (wsSubs \ {sub}) \cup {[sub EXCEPT !.live = FALSE]}
    /\ UNCHANGED <<now, timerVars, connVars, hookVars, obsVars, retryVars, appVars, wsLast>>

\* position of the first callback that throws, 0 if none does
FirstThrow(cbs, throwing) ==
    IF \E i \in 1..Len(cbs) : cbs[i] \in throwing
    THEN CHOOSE i \in 1..Len(cbs) :
            /\ cbs[i] \in throwing
            /\ \A j \in 1..(i - 1) : cbs[j] \notin throwing
    ELSE 0

\* a handleMessage without the try/catch around the callback
handleMessageNoCatch(ev, cbs, throwing) ==
    [ev |-> ev,
     called |-> IF FirstThrow(cbs, throwing) = 0 THEN cbs
                ELSE SubSeq(cbs, 1, FirstThrow(cbs, throwing)),
     caught |-> {},
     escaped |-> FirstThrow(cbs, throwing) # 0]

\* handleMessage(event, data): forEach over the Set of the event, each
\* callback inside its own try/catch
handleMessage(ev, cbs, throwing) ==
    [ev |-> ev,
     called |-> cbs,
     caught |-> {cbs[i] : i \in {j \in 1..Len(cbs) : cbs[j] \in throwing}},
     escaped |-> FALSE]

\* the socket receives an event; the callbacks in `throwing` throw when they
\* are called with its data. Only the three events connect() listens to
\* reach handleMessage
WsMessage == \E ev \in WsEvents \cup WsOtherEvents, throwing \in SUBSET Callbacks :
    /\ wsLast' = IF ev \in WsEvents
                 THEN handleMessage(ev, wsListeners[ev], throwing)
                 ELSE [NoDispatch EXCEPT !.ev = ev]
    /\ UNCHANGED <<now, timerVars, connVars, hookVars, obsVars, retryVars, appVars,
                   wsListeners, wsSubs>>

(* --------------------------- specification ---------------------------- *)

vars == <<now, timerVars, sockVars>>

InitTimers ==
    /\ now = 0
    /\ timers = [p \in PatientIds |-> 0]
    /\ timeouts = {}
    /\ nextHandle = 1
    /\ completed = [h \in 1..MaxHandle |-> 0]
    /\ cleared = {}
    /\ expiresAt = [q \in Entries |-> -1]
    /\ patients = [q \in Entries |-> 0]
    /\ loading = TRUE
    /\ error = FALSE
    /\ inflight = <<[q \in Entries |-> 0]>>
    /\ timeRemaining = [q \in Entries |-> 0]
    /\ intervalDue = [q \in Entries |-> -1]
    /\ fired = [q \in Entries |-> 0]
    /\ countdownEnd = [q \in Entries |-> -1]
    /\ shown = [q \in Entries |-> -1]

InitSockets ==
    /\ socket = 0
    /\ isConnected = FALSE
    /\ nsock = 0
    /\ transport = [s \in Sockets |-> "none"]
    /\ listeners = [s \in Sockets |-> {}]
    /\ sendBuffer = [s \in Sockets |-> {}]
    /\ joins = [s \in Sockets |-> {}]
    /\ mountedSock = [h \in Hooks |-> 0]
    /\ globalIdent = NoIdent
    /\ pendingJoins = {}
    /\ stale = {}
    /\ granted = TRUE
    /\ alerts = [k \in EventNames \X Qids |-> 0]
    /\ heldAtDisconnect = 0
    /\ attempts = [s \in Sockets |-> 0]

NoEvent == [seq |-> 0, ev |-> "", sock |-> 0, keys |-> {}, hooks |-> {},
            invoked |-> {}, managerDown |-> FALSE, afterUnknown |-> FALSE]

InitPipe ==
    /\ tasks = {}
    /\ nseq = 0
    /\ lastEvent = NoEvent
    /\ updatePending = FALSE

InitPush ==
    /\ user = 0
    /\ userChanges = 0
    /\ pushRegistered = FALSE
    /\ pushToken = FALSE
    /\ setups = {}
    /\ backendToken = "none"
    /\ registerCalls = 0

InitWs ==
    /\ wsListeners = [ev \in WsEvents |-> <<>>]
    /\ wsSubs = {}
    /\ wsLast = NoDispatch

InitApp ==
    /\ InitPipe
    /\ InitPush
    /\ InitWs
    /\ payload = NoPayload
    /\ rendered = NoRendered

Init == InitTimers /\ InitSockets /\ InitApp

\* TimerManager alone
NextTimerManager ==
    \/ StartTimer
    \/ ClearTimer
    \/ ClearAllTimers
    \/ TimeoutFires
    \/ Tick

SpecTimerManager == Init /\ [][NextTimerManager]_vars

\* timers and countdowns started with any duration, zero and negative
\* included
NextZeroDuration ==
    \/ StartTimerNow
    \/ TimeoutFires
    \/ FetchStart
    \/ FetchResolveAny
    \/ IntervalTick
    \/ Tick

SpecZeroDuration == Init /\ [][NextZeroDuration]_vars

\* TimerManager with completion callbacks that return, throw, or start
\* the timer of their patient again
NextCallbacks ==
    \/ StartTimer
    \/ ClearTimer
    \/ ClearAllTimers
    \/ TimeoutFires
    \/ TimeoutFiresThrows
    \/ TimeoutFiresRestarts
    \/ Tick

SpecCallbacks == Init /\ [][NextCallbacks]_vars

\* TimerComponent with the screen and server state that feed it
NextTimerComponent ==
    \/ ApplyEyeDrops
    \/ MarkReady
    \/ FetchStart
    \/ FetchResolve
    \/ FetchReject
    \/ IntervalTick
    \/ Tick

SpecTimerComponent == Init /\ [][NextTimerComponent]_vars

\* the manager and the transports
Lifecycle ==
    \/ ManagerConnect
    \/ ManagerDisconnect
    \/ TransportConnects
    \/ TransportReconnects
    \/ TransportDisconnects
    \/ PendingJoinRuns

\* the eye-drop queue hook and the global notification hook on the shared
\* manager
NextSocket ==
    \/ EyeDropMount
    \/ EyeDropUnmount
    \/ GlobalMount
    \/ GlobalUnmount
    \/ Lifecycle

SpecSocket == Init /\ [][NextSocket]_vars

\* the doctor queue hook and the patients queue hook on the shared manager
NextQueueHooks ==
    \/ DoctorMount
    \/ DoctorUnmount
    \/ PatientsMount
    \/ PatientsUnmount
    \/ Lifecycle

SpecQueueHooks == Init /\ [][NextQueueHooks]_vars

\* server events delivered to the mounted hooks
InitEvents ==
    /\ InitTimers
    /\ socket = 0
    /\ isConnected = FALSE
    /\ nsock = 0
    /\ transport = [s \in Sockets |-> "none"]
    /\ listeners = [s \in Sockets |-> {}]
    /\ sendBuffer = [s \in Sockets |-> {}]
    /\ joins = [s \in Sockets |-> {}]
    /\ mountedSock = [h \in Hooks |-> 0]
    /\ globalIdent = NoIdent
    /\ pendingJoins = {}
    /\ stale = {}
    /\ granted \in BOOLEAN
    /\ alerts = [k \in EventNames \X Qids |-> 0]
    /\ heldAtDisconnect = 0
    /\ attempts = [s \in Sockets |-> 0]
    /\ InitApp

NextEvents ==
    \/ EyeDropMount
    \/ GlobalMount
    \/ TransportConnects
    \/ PendingJoinRuns
    \/ ServerEvent
    \/ LookupSettles
    \/ PermissionSettles
    \/ ScheduleSettles
    \/ WindowElapses

SpecEvents == InitEvents /\ [][NextEvents]_vars

\* the handlers of useEyeDropQueueSocket across their awaits
NextHandlers ==
    \/ EyeDropMount
    \/ TransportConnects
    \/ PendingJoinRuns
    \/ ServerEvent
    \/ LookupSettles
    \/ PermissionSettles
    \/ ScheduleSettles
    \/ Refetch

SpecHandlers == InitEvents /\ [][NextHandlers]_vars

\* the three queue hooks receiving the server's events
NextInvalidate ==
    \/ EyeDropMount
    \/ DoctorMount
    \/ PatientsMount
    \/ TransportConnects
    \/ ServerEvent
    \/ LookupSettles
    \/ PermissionSettles
    \/ ScheduleSettles

SpecInvalidate == Init /\ [][NextInvalidate]_vars

\* events arriving around a disconnect() of the manager
NextTeardown ==
    \/ EyeDropMount
    \/ GlobalMount
    \/ ManagerDisconnect
    \/ TransportConnects
    \/ ServerEvent
    \/ LookupSettles
    \/ PermissionSettles
    \/ ScheduleSettles

SpecTeardown == Init /\ [][NextTeardown]_vars

\* the global hook of one staff member over connects and reconnects
NextJoinRooms ==
    \/ ManagerConnect
    \/ GlobalMountAs
    \/ TransportConnects
    \/ TransportReconnects
    \/ TransportDisconnects
    \/ PendingJoinRuns

SpecJoinRooms == Init /\ [][NextJoinRooms]_vars

\* AppContent's push registration over logins, refreshes and logouts
NextPush ==
    \/ Login
    \/ ProfileRefresh
    \/ Logout
    \/ InitializeSettles
    \/ RegisterSettles
    \/ UnregisterSettles

SpecPush == Init /\ [][NextPush]_vars

\* a transport of the manager losing its connection and failing to get it
\* back
NextRetry ==
    \/ ManagerConnect
    \/ EyeDropMount
    \/ ManagerDisconnect
    \/ TransportConnects
    \/ TransportDisconnects
    \/ TransportReconnects
    \/ ConnectFails
    \/ ReconnectFails
    \/ PendingJoinRuns

SpecRetry == Init /\ [][NextRetry]_vars

\* recognised and unrecognised events reaching the eye-drop queue hook
NextUnknown ==
    \/ EyeDropMount
    \/ TransportConnects
    \/ PendingJoinRuns
    \/ ServerEvent
    \/ UnrecognisedEvent
    \/ LookupSettles
    \/ PermissionSettles
    \/ ScheduleSettles

SpecUnknown == Init /\ [][NextUnknown]_vars

\* WebSocketService: subscriptions and the dispatch of socket events
NextWs ==
    \/ WsSubscribe
    \/ WsUnsubscribe
    \/ WsMessage

SpecWs == Init /\ [][NextWs]_vars

\* TimerManager timers running while the connection goes down and comes
\* back
NextReconnect ==
    \/ StartTimer
    \/ TimeoutFires
    \/ Tick
    \/ ManagerConnect
    \/ ManagerDisconnect
    \/ TransportConnects
    \/ TransportDisconnects

SpecReconnect == Init /\ [][NextReconnect]_vars

(* ------------------------- timer properties --------------------------- *)

PendingFor(to, p) == {t \in to : t.patientId = p}

TimerInv ==
    /\ \A p \in PatientIds : Cardinality(PendingFor(timeouts, p)) <= 1
    /\ \A t \in timeouts : timers[t.patientId] = t.h
    /\ \A c \in cleared : completed[c.h] = 0

StartReplaces ==
    \A p \in PatientIds :
        (timers'[p] # 0 /\ timers'[p] # timers[p]) =>
            /\ \E t \in timeouts' :
                  /\ t.h = timers'[p]
                  /\ t.due = now + Max(t.duration, 0)
                  /\ PendingFor(timeouts', p) = {t}
            /\ \A x \in PendingFor(timeouts, p) :
                  \E c \in cleared' : c.h = x.h

\* C6: at most one timer is pending per patientId; a startTimer for an id
\* that has a pending timer leaves exactly the new timeout pending, due one
\* full (second) duration after the call, and a timeout cancelled while it
\* was pending never runs its onComplete.
AtMostOneTimerPerEntry == []TimerInv /\ [][StartReplaces]_vars

\* C6 witness: a timer was started over a pending one and is due later, the
\* first one's due time has passed, and only the second is pending
RestartedTimerPending ==
    \E t \in timeouts, c \in cleared :
        /\ c.by = "start"
        /\ c.patientId = t.patientId
        /\ c.due < t.due
        /\ now >= c.due
        /\ completed[c.h] = 0

FiredAtMostOnce ==
    /\ \A h \in 1..MaxHandle : completed[h] <= 1
    /\ \A q \in Entries : fired[q] <= 1

NotBeforeDue ==
    /\ \A h \in 1..MaxHandle :
         completed'[h] > completed[h] =>
             \E t \in timeouts : t.h = h /\ now >= t.due
    /\ \A q \in Entries :
         fired'[q] > fired[q] => now >= countdownEnd[q]

\* C2: for every timer start the expiry callback runs once and no more, and
\* not before the duration has elapsed: onComplete of a TimerManager
\* timeout, and onTimerExpire of the countdown of one wait, whatever
\* mounts and unmounts of the TimerComponent happen in between.
ExpiryFiresOnce == []FiredAtMostOnce /\ [][NotBeforeDue]_vars

\* C7: a step that unmounts the TimerComponent of a running countdown (and
\* is not the countdown's own expiry) leaves the countdown running.
UnmountKeepsCountdown ==
    [][\A q \in Entries :
         (/\ intervalDue[q] # -1
          /\ ListVisible(loading, error)
          /\ ~ListVisible(loading', error')
          /\ fired'[q] = fired[q])
         => intervalDue'[q] # -1]_vars

\* C9: when the TimerComponent of a running wait is mounted again, the
\* countdown it shows is the wall-clock expiry minus the current time and
\* is no greater than the value it showed when it was last unmounted.
ReinitAnchoredToExpiry ==
    [][\A q \in Entries :
         (/\ ~ListVisible(loading, error)
          /\ ListVisible(loading', error')
          /\ patients'[q] > 0
          /\ expiresAt[q] # -1)
         => /\ timeRemaining'[q] = Max(expiresAt[q] - now, 0)
            /\ shown[q] # -1 => timeRemaining'[q] <= shown[q]]_vars

(* ------------------------- socket properties -------------------------- *)

\* C8: no step that changes the connection state (connect, disconnect, a
\* transport connecting or dropping) changes any timer: the
\* pending timeouts with their due instants, the timer map and the
\* countdowns are left as they were.
ConnectionLeavesTimers ==
    [][connVars' # connVars => UNCHANGED timerVars]_vars

\* C8 witness: a timeout that was pending when disconnect() ran is still
\* pending, with time left, while a new transport is connected
TimerSurvivedReconnect ==
    \E t \in timeouts :
        /\ t.h < heldAtDisconnect
        /\ now < t.due
        /\ \E s \in Sockets : transport[s] = "closed"
        /\ socket # 0 /\ transport[socket] = "connected" /\ isConnected

\* C1: within one coalescing window at most one alert is scheduled per
\* (event kind, queueEntryId).
OneAlertPerDedupeKey == \A k \in DOMAIN alerts : alerts[k] <= 1

HookIdent(h) == IF h = "global" THEN globalIdent ELSE NoIdent

\* C3: when a transport (re)connects while a hook is mounted on it, the
\* hook's join is scheduled or sent in that step, and a delayed join that
\* runs while its hook is mounted and its socket connected sends the hook's
\* join directives on that socket.
JoinsSentOnEveryConnect ==
    /\ [][\A h \in Hooks :
            LET s == mountedSock[h] IN
            (s # 0 /\ transport[s] # "connected" /\ transport'[s] = "connected")
            => \/ \E t \in pendingJoins' :
                     t.hook = h /\ t.sock = s /\ t.ident = HookIdent(h)
               \/ Tagged(HookDirectives(h, HookIdent(h)), h, HookIdent(h))
                     \subseteq joins'[s]]_vars
    /\ [][\A t \in pendingJoins \ pendingJoins' :
            (/\ mountedSock[t.hook] = t.sock
             /\ t.ident = HookIdent(t.hook)
             /\ transport[t.sock] = "connected")
            => Tagged(HookDirectives(t.hook, t.ident), t.hook, t.ident)
                  \subseteq joins'[t.sock]]_vars

\* C4: connect() creates a transport only when none exists or the existing
\* one is neither connected nor connecting, and all hooks mounted on
\* transports that were not closed share one socket.
ConnectIsIdempotent ==
    /\ [][nsock' > nsock =>
            (socket = 0 \/ transport[socket] \notin {"connecting", "connected"})]_vars
    /\ [](\A h1, h2 \in Hooks :
            (/\ mountedSock[h1] # 0 /\ mountedSock[h2] # 0
             /\ transport[mountedSock[h1]] # "closed"
             /\ transport[mountedSock[h2]] # "closed")
            => mountedSock[h1] = mountedSock[h2])

\* C5: the cleanup of a hook removes every listener of that hook from its
\* socket, removes no listener of another owner and adds none.
CleanupRestoresListeners ==
    [][\A h \in Hooks :
         (mountedSock[h] # 0 /\ mountedSock'[h] = 0) =>
            LET s == mountedSock[h] IN
            /\ {l \in listeners'[s] : l.owner = h} = {}
            /\ {l \in listeners[s] : l.owner # h} \subseteq listeners'[s]
            /\ listeners'[s] \subseteq listeners[s]]_vars

\* C10: while the global hook is mounted with an identity, every join
\* directive it newly emits belongs to the channel set of that identity.
JoinsFollowIdentity ==
    [][\A s \in Sockets :
         \A j \in (joins'[s] \cup sendBuffer'[s]) \ (joins[s] \cup sendBuffer[s]) :
            (j.hook = "global" /\ globalIdent' # NoIdent) =>
               [channel |-> j.channel, arg |-> j.arg]
                  \in JoinRooms(globalIdent'.staffType, globalIdent'.staffId)]_vars

(* --------------------- notification text properties ------------------- *)

\* the texts of one payload, drawn from every combination of its fields
InitPayload ==
    /\ InitTimers
    /\ InitSockets
    /\ InitPipe
    /\ InitPush
    /\ InitWs
    /\ payload \in Payloads
    /\ rendered = NoRendered

NextPayload == RenderTexts

SpecPayload == InitPayload /\ [][NextPayload]_vars

\* C16: for every payload the patient display name and the reason text
\* interpolated into the notification are non-empty, on the path through
\* sendPatientNotification and on the path of the global hook.
TextsNeverEmpty ==
    rendered # NoRendered =>
        /\ rendered.name # "" /\ rendered.reasons # ""
        /\ rendered.globalName # "" /\ rendered.globalReasons # ""

(* ------------------------- handler properties ------------------------- *)

RecognisedKinds ==
    {"queue:patient-on-hold", "queue:patient-available", "queue:patient-assigned",
     "queue:patient-resumed", "queue:patient-ready", "queue:updated",
     "queue:reordered", "queue:patient-called", "queue:patient-checked-in"}

QueueHooks == {"eyeDrop", "doctor", "patients"}

\* C11: an event of a recognised kind that arrives on the socket on which
\* the three queue hooks are mounted marks a query key stale (at once, or a
\* handler that will do so is running), and 'queue:patient-checked-in'
\* arriving while usePatientsQueueSocket is mounted marks the optometrist
\* queue stale.
EveryKindInvalidates ==
    /\ (lastEvent.ev \in RecognisedKinds /\ QueueHooks \subseteq lastEvent.hooks)
          => \/ lastEvent.keys # {}
             \/ \E t \in tasks : t.seq = lastEvent.seq /\ Awaits(t.l)
    /\ (lastEvent.ev = "queue:patient-checked-in" /\ "patients" \in lastEvent.hooks)
          => "optometrist-queue" \in lastEvent.keys

\* C12: a handler that was started for a later event is never held back by
\* the lookup of an earlier one: its next step can be taken while that lookup
\* is in flight, and so can the delivery of a further event.
LaterHandlersProceed ==
    (\E u \in tasks : u.pc = "lookup") =>
        /\ \A t \in tasks :
              /\ t.pc = "lookup" => ENABLED LookupSettlesFor(t)
              /\ (t.pc = "perm" /\ (Notifies(t.l) => alerts[<<t.l.ev, t.qid>>] < MaxAlerts))
                    => ENABLED PermissionSettlesFor(t)
              /\ t.pc = "sched" => ENABLED ScheduleSettlesFor(t)
        /\ (nseq < MaxEvents /\ \E s \in Sockets : transport[s] = "connected")
              => ENABLED ServerEvent

\* C12 witness: a later event was processed to its end, alert scheduled and
\* eye-drop queue invalidated, while the lookup of an earlier event is still
\* in flight
LaterEventDoneDuringLookup ==
    \E u \in tasks :
        /\ u.pc = "lookup"
        /\ lastEvent.seq > u.seq
        /\ \E x \in lastEvent.invoked : x[1] = "eyeDrop"
        /\ ~\E t \in tasks : t.seq = lastEvent.seq
        /\ "eyeDropQueue" \in lastEvent.keys
        /\ \E q \in Qids : alerts[<<lastEvent.ev, q>>] > 0

\* C13: when the notification step of a handler is taken, no handler of an
\* earlier event is still waiting for its patient lookup, so that alerts
\* and invalidations follow the order of delivery.
ProcessedInDeliveryOrder ==
    [][\A t \in tasks :
         (t.pc = "perm" /\ t \notin tasks')
            => ~\E u \in tasks : u.seq < t.seq /\ u.pc = "lookup"]_vars

\* C14: whenever a handler of patient-on-hold, patient-resumed or
\* patient-ready ends, whether its alert was delivered, denied or rejected,
\* the eye-drop queue key is stale and onDataUpdate has been called.
AlertFailureStillInvalidates ==
    [][\A t \in tasks :
         (Awaits(t.l) /\ ~\E u \in tasks' : u.seq = t.seq /\ u.l = t.l)
            => "eyeDropQueue" \in stale' /\ updatePending']_vars

\* C14 witness: permission is not granted, a handler of the eye-drop hook
\* ran to its end without an alert, and the queue was invalidated
DeniedAlertInvalidated ==
    /\ ~granted
    /\ \E x \in lastEvent.invoked : x[1] = "eyeDrop" /\ x[2] = "handlePatientOnHold"
    /\ tasks = {}
    /\ \A k \in DOMAIN alerts : alerts[k] = 0
    /\ "eyeDropQueue" \in stale
    /\ "eyeDropQueue" \in lastEvent.keys
    /\ updatePending

\* C15: a handler whose lookup settled, found or failed, goes on to the
\* notification; with no patient object (failed lookup or no patient id)
\* and permission granted the alert is scheduled under a non-empty fallback
\* name; and the handler ends with the invalidation.
FailedLookupNotDropped ==
    [][\A t \in tasks :
         /\ (t.pc = "lookup" /\ t \notin tasks')
               => \E u \in tasks' : u.seq = t.seq /\ u.l = t.l /\ u.pc = "perm"
         /\ (t.pc = "perm" /\ t.data.patient = <<>> /\ granted /\ t \notin tasks')
               => /\ \E u \in tasks' : /\ u.seq = t.seq /\ u.l = t.l
                                       /\ u.pc = "sched" /\ Truthy(u.name)
                  /\ alerts'[<<t.l.ev, t.qid>>] = alerts[<<t.l.ev, t.qid>>] + 1
         /\ (Awaits(t.l) /\ ~\E u \in tasks' : u.seq = t.seq /\ u.l = t.l)
               => "eyeDropQueue" \in stale']_vars

\* C15 witness: the payload had a patient id, the lookup failed, and the
\* alert is scheduled under the fallback name made of the queue entry id
FallbackNameScheduled ==
    \E t \in tasks :
        /\ t.l.fn = "handlePatientOnHold"
        /\ t.pc = "sched"
        /\ Truthy(t.data.patientId)
        /\ t.data.patient = <<>>
        /\ t.name = "Patient #4567"
        /\ alerts[<<t.l.ev, t.qid>>] > 0

\* C17: while notification permission is not granted no step schedules an
\* alert.
PermissionCheckedBeforeDelivery ==
    [][~granted => \A k \in DOMAIN alerts : alerts'[k] <= alerts[k]]_vars

\* C20: after SocketManager.disconnect(), until the next connect(), no
\* handler that a hook registered is invoked for a server event.
DisconnectSilencesHandlers ==
    lastEvent.managerDown =>
        {x \in lastEvent.invoked : x[2] # "handlePatientCheckedIn"} = {}

(* ------------------------- join table properties ---------------------- *)

\* the channels of the role table
ExpectedChannels(staffType, staffId) ==
    CASE staffType = "receptionist2" ->
            {[channel |-> "queue:join-receptionist2", arg |-> ""],
             [channel |-> "queue:join-ophthalmologist", arg |-> ""]}
      [] staffType \in {"ophthalmologist", "doctor"} ->
            {[channel |-> "queue:join-doctor", arg |-> staffId],
             [channel |-> "queue:join-ophthalmologist", arg |-> ""]}
      [] staffType = "optometrist" ->
            {[channel |-> "queue:join-optometrist", arg |-> ""]}
      [] OTHER -> {}

SentFor(s, ident) ==
    {[channel |-> m.channel, arg |-> m.arg] :
        m \in {x \in joins[s] \cup sendBuffer[s] : x.hook = "global" /\ x.ident = ident}}

JoinTableInv ==
    \A s \in Sockets, ident \in AllIdentities :
        SentFor(s, ident) = {}
            \/ SentFor(s, ident) = ExpectedChannels(ident.staffType, ident.staffId)

JoinRunSendsTable ==
    \A t \in pendingJoins :
        (/\ t \notin pendingJoins'
         /\ t.hook = "global"
         /\ isSocketConnected(isConnected, socket, transport)
         /\ transport[t.sock] = "connected")
        => SentFor(t.sock, t.ident)' =
               ExpectedChannels(t.ident.staffType, t.ident.staffId)

\* C19: the directives the global hook has sent on a connection for a
\* (role, staffId) are never anything but the channels of the role table,
\* none at all for an unknown role, and a joinRooms that runs while connected
\* sends exactly the channels of the table.
JoinRoomsFollowTable == []JoinTableInv /\ [][JoinRunSendsTable]_vars

\* C19 witness: the hook of staff type 'doctor' has joined the doctor channel
\* keyed by its staffId on a connected socket
DoctorChannelJoined ==
    \E s \in Sockets : \E m \in joins[s] :
        /\ transport[s] = "connected"
        /\ m.hook = "global"
        /\ m.ident.staffType = "doctor"
        /\ m.channel = "queue:join-doctor"
        /\ m.arg = m.ident.staffId

(* ------------------------- push token properties ---------------------- *)

\* C18: at most one register-token request is made per session, and when
\* the user is logged out and no setupPush step is pending the backend does
\* not hold the token as registered (a token kept by a failed unregister
\* request apart).
TokenRegisteredOncePerSession ==
    /\ registerCalls <= 1
    /\ (user = 0 /\ setups = {}) => backendToken # "registered"

(* ------------------------- teardown properties ------------------------ *)

\* C21: a delayed join whose socket was closed by disconnect() before the
\* delay elapsed emits nothing when its callback runs: no join directive is
\* sent or buffered on any socket by that step.
DisconnectCancelsPendingJoins ==
    [][\A t \in pendingJoins :
         (t \notin pendingJoins' /\ transport[t.sock] = "closed")
            => joins' = joins /\ sendBuffer' = sendBuffer]_vars

(* ------------------------ reconnection properties --------------------- *)

RetryInv ==
    /\ \A s \in Sockets :
          /\ attempts[s] <= reconnectionAttempts
          /\ transport[s] = "failed" => attempts[s] = reconnectionAttempts
    /\ (socket # 0 /\ transport[socket] = "failed")
          => ~isSocketConnected(isConnected, socket, transport)

RetryStops ==
    /\ \A s \in Sockets :
          transport[s] = "failed" =>
              /\ transport'[s] \in {"failed", "closed"}
              /\ transport'[s] = "closed" => socket = s /\ socket' = 0
              /\ attempts'[s] = attempts[s]
    /\ nsock' # nsock => (ManagerConnect \/ EyeDropMount)

\* C22: a transport makes at most reconnectionAttempts (5) reconnection
\* attempts; once they have all failed it stays failed, isSocketConnected()
\* is false for it, no step attempts to connect it again (only disconnect()
\* changes it, by closing it), and a new transport is created only by a call
\* of connect().
ReconnectionIsBounded == []RetryInv /\ [][RetryStops]_vars

\* C22 witness: the manager's socket has used up its five attempts and the
\* manager is not connected
AttemptsExhausted ==
    /\ socket # 0
    /\ transport[socket] = "failed"
    /\ attempts[socket] = reconnectionAttempts
    /\ ~isConnected

(* --------------------- WebSocketService properties -------------------- *)

\* number of times handleMessage called cb
Calls(d, cb) == Cardinality({i \in 1..Len(d.called) : d.called[i] = cb})

\* the subscriptions of an event whose unsubscribe function was not called
LiveSubs(ev, cb) == {sub \in wsSubs : sub.live /\ sub.ev = ev /\ sub.cb = cb}

\* C29: an incoming event is delivered once per subscription of that event
\* whose unsubscribe function has not been called, a callback subscribed
\* twice counting as two subscriptions, and to nothing else.
DeliveredToLiveSubscriptions ==
    [][wsLast' # wsLast =>
         \A cb \in Callbacks :
            Calls(wsLast', cb) = Cardinality(LiveSubs(wsLast'.ev, cb))]_vars

\* C30: when handleMessage dispatches an event, every callback subscribed to
\* it is called exactly once, those that throw included, the callbacks that
\* threw are the ones whose exception was caught, and no exception leaves
\* the socket event handler.
ThrowingCallbackIsolated ==
    [][wsLast' # wsLast =>
         /\ ~wsLast'.escaped
         /\ wsLast'.ev \in WsEvents =>
               \A cb \in Callbacks :
                  Calls(wsLast', cb) = IF Contains(wsListeners[wsLast'.ev], cb)
                                       THEN 1 ELSE 0]_vars

\* C30 witness: the first of two callbacks of an event threw and the second
\* was still called
CalledAfterThrow ==
    /\ Len(wsLast.called) = 2
    /\ wsLast.called[1] \in wsLast.caught
    /\ wsLast.called[2] \notin wsLast.caught
    /\ ~wsLast.escaped

(* ---------------------- unrecognised event properties ----------------- *)

UnknownDropped ==
    (lastEvent'.seq # lastEvent.seq /\ lastEvent'.ev \in UnknownNames) =>
        /\ lastEvent'.invoked = {} /\ lastEvent'.keys = {}
        /\ UNCHANGED <<alerts, stale, tasks, updatePending, timerVars, connVars,
                       mountedSock, pendingJoins, granted>>

RecognisedAfterUnknown ==
    (lastEvent'.seq # lastEvent.seq /\ lastEvent'.afterUnknown
        /\ lastEvent'.ev \in EventNames) =>
        LET ls == {l \in listeners[lastEvent'.sock] : l.ev = lastEvent'.ev} IN
        /\ lastEvent'.invoked = {<<l.owner, l.fn>> : l \in ls}
        /\ \A l \in ls :
              IF Awaits(l) THEN \E t \in tasks' : t.seq = lastEvent'.seq /\ t.l = l
              ELSE Invalidates(l) \subseteq stale'

ZeroDurationExpiresNextTick ==
    /\ \A h \in 1..MaxHandle : completed[h] <= 1
    /\ \A t \in timeouts : t.duration <= 0 => completed[t.h] = 0 /\ t.due <= now
    /\ \A q \in Entries :
          (ListVisible(loading, error) /\ patients[q] <= 0)
             => intervalDue[q] # -1 \/ fired[q] >= 1

(* --------------------- timer callback properties ---------------------- *)

\* C27: when the expiry callback starts a timer for its own patient, the
\* timeout that start created is pending after the callback and is the
\* map entry of the patient.
RestartInCallbackSurvives ==
    [][(nextHandle' # nextHandle /\ completed' # completed) =>
          \E t \in timeouts' : t.h = nextHandle /\ timers'[t.patientId] = t.h]_vars

\* C28: isTimerRunning(patientId) is true exactly when a timeout started for
\* the patient is pending, after starts, clears and expiries, a throwing
\* onComplete included.
RunningIffPending ==
    \A p \in PatientIds : isTimerRunning(p) <=> PendingFor(timeouts, p) # {}

ClearOnIdleInv ==
    \A p \in PatientIds :
        PendingFor(timeouts, p) = {} =>
            /\ clearTimerTimeouts(timers, timeouts, p) = timeouts
            /\ clearedBy(timers, timeouts, p, "clear") = {}
            /\ \A q \in PatientIds \ {p} : clearTimer(timers, p)[q] = timers[q]
            /\ clearTimer(clearTimer(timers, p), p) = clearTimer(timers, p)
            /\ timers[p] = 0 => clearTimer(timers, p) = timers

ClearOnIdleStep ==
    \A p \in PatientIds :
        (/\ PendingFor(timeouts, p) = {}
         /\ timers[p] # 0 /\ timers'[p] = 0
         /\ timeouts' = timeouts)
        => /\ completed' = completed
           /\ cleared' = cleared
           /\ nextHandle' = nextHandle

ConnectedFlagAgrees ==
    /\ [](socket # 0 /\ transport[socket] = "connected"
            => isSocketConnected(isConnected, socket, transport))
    /\ [][\A s \in Sockets :
            \A l \in listeners[s] \ listeners'[s] : l.owner # "manager"]_vars

====
